---------------------------- MODULE Spec2Model ----------------------------
(***************************************************************************)
(* GreenGuard: the audit pipeline of an energy-telemetry reading.          *)
(*                                                                         *)
(* Two pipelines exist in the repository and both are modelled:            *)
(*   - AgentOrchestrator.processIotLog (src/lib/agent-orchestrator.ts),    *)
(*     which reads a stored reading, runs the rule pre-check, calls        *)
(*     analyzeEnergyAnomaly (src/lib/gemini-client.ts), reconciles the two *)
(*     verdicts by severityOrder and persists an audit event;              *)
(*   - runAudit (the auditor agent), which enriches the reading, logs the  *)
(*     rule check and returns the AI verdict, the verdict of               *)
(*     performFallbackAudit when no API key is configured, or the          *)
(*     system-error verdict of its catch block; the dashboard's audit      *)
(*     simulation (SimulateAuditModal.handleStartAudit) persists that      *)
(*     verdict as an audit event of a reading it inserts.                  *)
(* The reviewer side (updateAuditWithHumanAction, fetchPendingAudits and   *)
(* the dashboard's handleVerify / handleFlag) acts on the persisted audits;*)
(* every await of the dashboard is a point where other steps interleave.   *)
(* The auditor's context agent (getContextData with its weather and grid   *)
(* lookups and mock generators) and the ingestion endpoint (POST           *)
(* /api/ingest-iot, which inserts the reading and starts processIotLog     *)
(* without awaiting it) are modelled as well.                              *)
(*                                                                         *)
(* Numbers are integers: energy and load are whole kWh, temperatures whole *)
(* degrees.  The source's floating-point comparisons are modelled by exact *)
(* cross-multiplication, which agrees with IEEE doubles on these integers. *)
(***************************************************************************)
EXTENDS Integers, Sequences, FiniteSets, Bags, TLC

VARIABLES
    iot_logs,       \* table iot_logs: reading id -> [energy_kwh]
    supplier,       \* the supplier row: [bill_max_load_kwh]
    audit_events,   \* table audit_events: sequence of rows, id = index
    logs,           \* AgentOrchestrator.logs of the singleton (shared by all runs)
    run,            \* per processIotLog call: position and local variables
    result,         \* per processIotLog call: the ProcessResult returned
    own,            \* history: the entries each call has logged, in order
    pendingAudits,  \* per dashboard session: the React state pendingAudits
    lastUpdate,     \* outcome of the last updateAuditWithHumanAction call
    inFlight,       \* per dashboard session: the calls awaiting their answer
    ra,             \* the runAudit call: position, inputs, logs and result
    cd,             \* the getContextData call: position, inputs, lookups and result
    post,           \* the POST /api/ingest-iot request: position, body and response
    env             \* what the outside world may answer: [answers, weathers, grids, store],
                    \* and which version of the dashboard page is served: page

vars == <<iot_logs, supplier, audit_events, logs, run, result, own,
          pendingAudits, lastUpdate, inFlight, ra, cd, post, env>>

orchVars == <<iot_logs, supplier, audit_events, logs, run, result, own, env>>
reviewVars == <<pendingAudits, lastUpdate, inFlight>>
sideVars == <<cd, post>>

-----------------------------------------------------------------------------
(* Bounds of the model *)

MinEnergy == 17
MaxEnergy == 25
LongText == 600

Energies == {0} \cup (MinEnergy..MaxEnergy)
MaxLoads == {-20, 0, 20}
Runs == {1, 2}
\* the id the store gives to the reading the audit simulation inserts
SimulatedLogId == 3
LogIds == Runs \cup {SimulatedLogId}
Reviewers == {1, 2}
\* calls the dashboard sessions together may have in flight: polls of the
\* pending list, and clicks on Verify / Flag
MaxPolls == 1
MaxClicks == 2
NULL == "NULL"

Min(a, b) == IF a < b THEN a ELSE b
Max(a, b) == IF a > b THEN a ELSE b


-----------------------------------------------------------------------------
(* Texts.  A text is [text, len]: what it says and how many characters it  *)
(* has, so that substring() is a real truncation.                          *)

Text(t, n) == [text |-> t, len |-> n]
Substring(t, n) == [t EXCEPT !.len = Min(t.len, n)]

-----------------------------------------------------------------------------
(* STEP 3 of processIotLog: the rule-based pre-check.                      *)
(*   variance = ((currentReading - billMaxLoad) / billMaxLoad) * 100       *)
(* VarianceExceeds is the JavaScript value of  variance > pct : a division *)
(* by a negative load flips the comparison, a division by zero gives       *)
(* +Infinity (reading above 0), NaN (reading 0): NaN > pct is false.       *)

AnomalyVariancePct == 20
WarningVariancePct == 10

VarianceExceeds(currentReading, billMaxLoad, pct) ==
    IF billMaxLoad > 0 THEN (currentReading - billMaxLoad) * 100 > pct * billMaxLoad
    ELSE IF billMaxLoad < 0 THEN (currentReading - billMaxLoad) * 100 < pct * billMaxLoad
    ELSE currentReading > 0

VarianceAtLeast(currentReading, billMaxLoad, pct) ==
    IF billMaxLoad > 0 THEN (currentReading - billMaxLoad) * 100 >= pct * billMaxLoad
    ELSE IF billMaxLoad < 0 THEN (currentReading - billMaxLoad) * 100 =< pct * billMaxLoad
    ELSE currentReading > 0

preliminaryStatusInclusive(currentReading, billMaxLoad) ==
    IF VarianceAtLeast(currentReading, billMaxLoad, AnomalyVariancePct) THEN "ANOMALY"
    ELSE IF VarianceAtLeast(currentReading, billMaxLoad, WarningVariancePct) THEN "WARNING"
    ELSE "VERIFIED"

preliminaryStatus(currentReading, billMaxLoad) ==
    IF VarianceExceeds(currentReading, billMaxLoad, AnomalyVariancePct) THEN "ANOMALY"
    ELSE IF VarianceExceeds(currentReading, billMaxLoad, WarningVariancePct) THEN "WARNING"
    ELSE "VERIFIED"

\* the level of the RulesEngine log entry written with the preliminary status
preliminaryLogTag(status) ==
    IF status = "ANOMALY" THEN "rules:ANOMALY"
    ELSE IF status = "WARNING" THEN "rules:WARNING" ELSE "rules:VERIFIED"

-----------------------------------------------------------------------------
(* analyzeContextualAnomaly (context-agent.ts).  x > m * f is compared in  *)
(* tenths or hundredths to stay in the integers.                           *)

analyzeContextualAnomaly(energyReading, weather, gridIntensity, billMaxLoad) ==
    LET f1 == energyReading * 10 > billMaxLoad * 8 /\ weather.temperature < 22
        f2 == gridIntensity > 800 /\ energyReading * 10 > billMaxLoad * 9
        f3 == energyReading * 10 > billMaxLoad * 12
        f4 == weather.temperature > 35 /\ energyReading * 100 > billMaxLoad * 85
        f5 == weather.condition = "Rainy" /\ energyReading * 10 > billMaxLoad * 9
        s3 == f1 \/ f3                \* isSuspicious after flags 1 to 3
        r1 == IF f1 THEN "HIGH_ENERGY_COOL_WEATHER" ELSE "aligned"
        r2 == IF f2 /\ ~f1 THEN "HIGH_CARBON_IMPACT" ELSE r1
        r3 == IF f3 THEN "CRITICAL_OVERAGE" ELSE r2
        r4 == IF f4 /\ ~s3 THEN "EXTREME_HEAT_HIGH_LOAD" ELSE r3
        r5 == IF f5 /\ ~s3 THEN "HIGH_LOAD_RAINY_DAY" ELSE r4
    IN  [isSuspicious |-> s3 \/ f5,
         reason |-> r5,
         contextFlags |->
             (IF f1 THEN {"HIGH_ENERGY_COOL_WEATHER"} ELSE {}) \cup
             (IF f2 THEN {"HIGH_CARBON_IMPACT"} ELSE {}) \cup
             (IF f3 THEN {"CRITICAL_OVERAGE"} ELSE {}) \cup
             (IF f4 THEN {"EXTREME_HEAT_HIGH_LOAD"} ELSE {}) \cup
             (IF f5 THEN {"HIGH_LOAD_RAINY_DAY"} ELSE {})]

\* what getWeatherContext / getGridCarbonIntensity may return (they draw at random)
Weathers == [temperature : {20, 30, 36}, condition : {"Clear", "Rainy"}]
GridIntensities == {750, 850}

-----------------------------------------------------------------------------
(* gemini-client.ts: analyzeEnergyAnomaly and parseAIResponse.             *)
(*                                                                         *)
(* What the external service does is an input:                             *)
(*   nokey     GEMINI_API_KEY is not set, getGeminiClient throws           *)
(*   apierror  generateContent rejects (network, 429, ...)                 *)
(*   json      the text holds {...} that JSON.parse accepts; a field is    *)
(*             <<v>> when present with the expected type, << >> otherwise *)
(*   badjson   the text holds {...} that JSON.parse rejects                *)
(*   plain     the text holds no {...}; mentions are the labels it names   *)

RawStatuses == {<<"NORMAL">>, <<"WARNING">>, <<"ANOMALY">>, <<"VERIFIED">>,
                <<"anomaly">>, << >>}
RawConfidences == {<<-5>>, <<0>>, <<60>>, <<150>>, << >>}
RawReasonings == {<<40>>, <<LongText>>, << >>}
Mentions == {{}, {"NORMAL"}, {"WARNING"}, {"ANOMALY"}, {"WARNING", "ANOMALY"},
             {"NORMAL", "WARNING"}}

GeminiOutcomes ==
    {[kind |-> "nokey"], [kind |-> "apierror"], [kind |-> "badjson"]}
    \cup [kind : {"json"}, status : RawStatuses, confidence : RawConfidences,
          reasoning : RawReasonings]
    \cup [kind : {"plain"}, mentions : Mentions, len : {40, LongText}]

parseAIResponse(text) ==
    IF text.kind = "badjson"
    THEN [status |-> "PENDING",
          reasoning |-> Text("Unable to parse AI analysis. Manual review required.", 52),
          confidence |-> 0]
    ELSE IF text.kind = "json"
    THEN [status |-> IF text.status # << >> /\ text.status[1] \in {"NORMAL", "WARNING", "ANOMALY"}
                     THEN text.status[1] ELSE "PENDING",
          reasoning |-> IF text.reasoning # << >>
                        THEN Substring(Text("ai", text.reasoning[1]), 500)
                        ELSE Text("Analysis completed", 18),
          confidence |-> IF text.confidence # << >>
                         THEN Max(0, Min(100, text.confidence[1]))
                         ELSE 50]
    ELSE [status |-> IF "ANOMALY" \in text.mentions THEN "ANOMALY"
                     ELSE IF "WARNING" \in text.mentions THEN "WARNING"
                     ELSE IF "NORMAL" \in text.mentions THEN "NORMAL"
                     ELSE "PENDING",
          reasoning |-> Substring(Text("ai", text.len), 300),
          confidence |-> 70]

analyzeEnergyAnomaly(outcome) ==
    IF outcome.kind \in {"nokey", "apierror"}
    THEN [status |-> "PENDING",
          reasoning |-> Text("AI analysis unavailable. Manual review required.", 48),
          confidence |-> 0]
    ELSE parseAIResponse(outcome)

-----------------------------------------------------------------------------
(* STEP 5 of processIotLog: reconciliation of the preliminary status and   *)
(* the AI result.                                                          *)

\* a severity order that does not tell WARNING from ANOMALY
severityOrderFlat(status) ==
    CASE status = "VERIFIED" -> 0
      [] status = "NORMAL" -> 0
      [] status = "PENDING" -> 1
      [] status = "WARNING" -> 3
      [] status = "ANOMALY" -> 3
      [] status = "REJECTED" -> 4

\* lines 194-201: severityOrder
severityOrder(status) ==
    CASE status = "VERIFIED" -> 0
      [] status = "NORMAL" -> 0
      [] status = "PENDING" -> 1
      [] status = "WARNING" -> 2
      [] status = "ANOMALY" -> 3
      [] status = "REJECTED" -> 4

\* lines 203-218: the final status and whether the AI assessment was used
usesAiAssessment(preliminary, aiResult) ==
    severityOrder(aiResult.status) > severityOrder(preliminary)

\* a reconciliation that takes the AI's label as it is
finalStatusOfRaw(preliminary, aiResult) ==
    IF severityOrder(aiResult.status) > severityOrder(preliminary)
    THEN aiResult.status
    ELSE preliminary

finalStatusOf(preliminary, aiResult) ==
    IF usesAiAssessment(preliminary, aiResult)
    THEN IF aiResult.status = "NORMAL" THEN "VERIFIED"
         ELSE IF aiResult.status = "PENDING" THEN preliminary
         ELSE aiResult.status
    ELSE preliminary

\* the preliminary status as the singleton holds it: the last "Preliminary
\* assessment" entry of this.logs, VERIFIED when the log holds none
sharedPreliminaryStatus ==
    LET at == {i \in DOMAIN logs : logs[i][3] = "Preliminary assessment"}
    IN  IF at = {} THEN "VERIFIED"
        ELSE logs[CHOOSE i \in at : \A j \in at : j =< i][4]

\* a reconciliation that takes the preliminary status from the state of the
\* singleton instead of the local variable of the call
reconciledStatusShared(r, aiResult) ==
    finalStatusOf(sharedPreliminaryStatus, aiResult)

\* a reconciliation in which the contextual analysis has a say
reconciledStatusContextual(r, aiResult) ==
    IF run[r].contextAnalysis.isSuspicious THEN "ANOMALY"
    ELSE finalStatusOf(run[r].preliminaryStatus, aiResult)

\* lines 203-218 within a call: the final status of run r given the AI result
reconciledStatus(r, aiResult) ==
    finalStatusOf(run[r].preliminaryStatus, aiResult)

\* the call of generateContent wrapped in retryWithBackoff, whose default is
\* one retry (gemini-client.ts line 202)
retriesWithBackoff == 1

\* gemini-client.ts line 80: analyzeEnergyAnomaly calls generateContent
\* directly; retryWithBackoff (lines 200-215) wraps no call, so a call that
\* rejected is repeated no time
retries == 0

\* lines 171-173: the values kept when the AI result is not taken
RuleReasoning == Text("Rule-based assessment only", 26)
DefaultConfidence == 75

-----------------------------------------------------------------------------
(* AgentOrchestrator.processIotLog, one action per stretch of code between *)
(* two awaits.  The orchestrator is a singleton (agentOrchestrator), so    *)
(* this.logs is one variable shared by every call in flight; everything    *)
(* else is local to the call and lives in run[r].                          *)

Entry(r, agent, message, arg) == <<r, agent, message, arg>>

\* the answers of the store: a call succeeds, reports an error, or rejects
StoreOutcomes == env.store
\* the same answers seen through a db-helpers function, whose try/catch
\* turns a rejection into { data: null, error }
StoreSucceeds == {o = "ok" : o \in env.store}

NoAiResult == [status |-> "none", reasoning |-> Text("none", 0), confidence |-> 0]

\* weather and contextAnalysis before STEP 2 and STEP 4
NoWeather == [temperature |-> 0, condition |-> "none"]
NoContextAnalysis == [isSuspicious |-> FALSE, reason |-> "none", contextFlags |-> {}]

NewRun(pc) ==
    [pc |-> pc, energy_kwh |-> 0, billMaxLoad |-> 0, preliminaryStatus |-> "none",
     weather |-> NoWeather, gridIntensity |-> 0, contextAnalysis |-> NoContextAnalysis,
     apiKey |-> FALSE, aiOutcome |-> "none", aiCalls |-> 0,
     aiResult |-> NoAiResult, usedAi |-> FALSE, finalStatus |-> "none",
     aiReasoning |-> RuleReasoning, confidence |-> DefaultConfidence,
     auditId |-> 0, payload |-> << >>]

NoResult ==
    [returned |-> FALSE, success |-> FALSE, auditId |-> 0, status |-> "none",
     logs |-> << >>, error |-> "none"]

\* return { success: false, logs: this.logs, error }
Failure(theLogs, error) ==
    [returned |-> TRUE, success |-> FALSE, auditId |-> 0, status |-> "none",
     logs |-> theLogs, error |-> error]

\* a catch block that starts the pipeline again instead of returning
CatchRetry(r) ==
    LET e == <<Entry(r, "System", "Pipeline failed", "")>>
    IN  /\ logs' = logs \o e
        /\ own' = [own EXCEPT ![r] = @ \o e]
        /\ result' = result
        /\ run' = [run EXCEPT ![r].pc = "ready"]

\* the catch block of processIotLog (lines 274-283)
Catch(r) ==
    LET e == <<Entry(r, "System", "Pipeline failed", "")>>
    IN  /\ logs' = logs \o e
        /\ own' = [own EXCEPT ![r] = @ \o e]
        /\ result' = [result EXCEPT ![r] = Failure(logs \o e, "thrown")]
        /\ run' = [run EXCEPT ![r].pc = "done"]

\* lines 43-57: reset the log, announce, ask the store for the reading
Start(r) ==
    /\ run[r].pc = "ready"
    /\ LET e == <<Entry(r, "System", "Agent pipeline initiated", ""),
                  Entry(r, "IngestionAgent", "Fetching IoT log data", "")>>
       IN  /\ logs' = e
           /\ own' = [own EXCEPT ![r] = @ \o e]
    /\ run' = [run EXCEPT ![r].pc = "fetchLog"]
    /\ UNCHANGED <<iot_logs, supplier, audit_events, result, reviewVars, ra, sideVars, env>>

\* lines 53-72: the reading arrives, is missing, or the store call rejects
FetchIotLog(r) ==
    /\ run[r].pc = "fetchLog"
    /\ \E outcome \in StoreOutcomes :
         CASE outcome = "ok" ->
                LET e == <<Entry(r, "IngestionAgent", "Received reading", "")>>
                IN  /\ logs' = logs \o e
                    /\ own' = [own EXCEPT ![r] = @ \o e]
                    /\ run' = [run EXCEPT ![r].pc = "fetchSupplier",
                                          ![r].energy_kwh = iot_logs[r].energy_kwh]
                    /\ UNCHANGED result
           [] outcome = "error" ->
                LET e == <<Entry(r, "IngestionAgent", "Failed to fetch IoT log", "")>>
                IN  /\ logs' = logs \o e
                    /\ own' = [own EXCEPT ![r] = @ \o e]
                    /\ result' = [result EXCEPT ![r] = Failure(logs \o e, "IoT log not found")]
                    /\ run' = [run EXCEPT ![r].pc = "done"]
           [] outcome = "throw" -> Catch(r)
    /\ UNCHANGED <<iot_logs, supplier, audit_events, reviewVars, ra, sideVars, env>>

\* lines 72-86: fetchSupplierById never throws, it returns data or error
FetchSupplier(r) ==
    /\ run[r].pc = "fetchSupplier"
    /\ \E found \in StoreSucceeds :
         IF found
         THEN LET e == <<Entry(r, "BillReaderAgent", "Supplier", "")>>
              IN  /\ logs' = logs \o e
                  /\ own' = [own EXCEPT ![r] = @ \o e]
                  /\ run' = [run EXCEPT ![r].pc = "fetchHistory",
                                        ![r].billMaxLoad = supplier.bill_max_load_kwh]
                  /\ UNCHANGED result
         ELSE LET e == <<Entry(r, "IngestionAgent", "Failed to fetch supplier data", "")>>
              IN  /\ logs' = logs \o e
                  /\ own' = [own EXCEPT ![r] = @ \o e]
                  /\ result' = [result EXCEPT ![r] = Failure(logs \o e, "Supplier not found")]
                  /\ run' = [run EXCEPT ![r].pc = "done"]
    /\ UNCHANGED <<iot_logs, supplier, audit_events, reviewVars, ra, sideVars, env>>

\* gemini-client.ts lines 10-19: whether GEMINI_API_KEY is configured, as far
\* as the answers of the world tell
ApiKeys == {o.kind # "nokey" : o \in env.answers}

\* lines 86-176: history, STEP 2 context, STEP 3 rule pre-check, STEP 4
\* contextual analysis, and the call of analyzeEnergyAnomaly, which calls
\* generateContent (gemini-client.ts line 80) unless getGeminiClient threw
\* for want of an API key
RulePreCheck(r) ==
    /\ run[r].pc = "fetchHistory"
    /\ \E history \in StoreSucceeds, weather \in env.weathers, gridIntensity \in env.grids,
          apiKey \in ApiKeys :
         LET currentReading == run[r].energy_kwh
             billMaxLoad == run[r].billMaxLoad
             status == preliminaryStatus(currentReading, billMaxLoad)
             contextAnalysis == analyzeContextualAnomaly(currentReading, weather,
                                                         gridIntensity, billMaxLoad)
             e == <<Entry(r, "ContextAgent",
                          IF history THEN "Historical average" ELSE "No historical data", ""),
                    Entry(r, "ContextAgent", "Weather", ""),
                    Entry(r, "ContextAgent", "Grid carbon intensity", ""),
                    Entry(r, "RulesEngine", "Running rule-based pre-check", ""),
                    Entry(r, "RulesEngine", "Preliminary assessment", status),
                    Entry(r, "ContextAgent",
                          IF contextAnalysis.isSuspicious THEN "Contextual flag" ELSE "ok",
                          contextAnalysis.reason),
                    Entry(r, "AuditorAgent", "Invoking Gemini AI for analysis", "")>>
         IN  /\ logs' = logs \o e
             /\ own' = [own EXCEPT ![r] = @ \o e]
             /\ run' = [run EXCEPT ![r].pc = "aiAnalysis",
                                   ![r].weather = weather,
                                   ![r].gridIntensity = gridIntensity,
                                   ![r].preliminaryStatus = status,
                                   ![r].contextAnalysis = contextAnalysis,
                                   ![r].finalStatus = status,
                                   ![r].apiKey = apiKey,
                                   ![r].aiCalls = IF apiKey THEN @ + 1 ELSE @]
    /\ UNCHANGED <<iot_logs, supplier, audit_events, result, reviewVars, ra, sideVars, env>>

\* the answers analyzeEnergyAnomaly can get: the throw of getGeminiClient
\* without an API key, else what the service answers to the call
AnswersFor(apiKey) == {o \in env.answers : (o.kind # "nokey") = apiKey}

\* lines 176-240: the AI result arrives, reconciliation, createAuditEvent is
\* called.  analyzeEnergyAnomaly catches every failure itself and returns a
\* result, so the catch block of lines 223-228 is never entered.  A call
\* that rejected is made again as long as retries are left.
AiAnalysis(r) ==
    /\ run[r].pc = "aiAnalysis"
    /\ \E outcome \in AnswersFor(run[r].apiKey) :
         IF outcome.kind = "apierror" /\ run[r].aiCalls =< retries
         THEN /\ run' = [run EXCEPT ![r].aiCalls = @ + 1]
              /\ UNCHANGED <<logs, own>>
         ELSE
         LET aiResult == analyzeEnergyAnomaly(outcome)
             usedAi == usesAiAssessment(run[r].preliminaryStatus, aiResult)
             final == reconciledStatus(r, aiResult)
             e == <<Entry(r, "AuditorAgent", "AI Analysis", aiResult.status),
                    Entry(r, "AuditorAgent", "Reasoning", aiResult.reasoning.text),
                    Entry(r, "AuditorAgent",
                          IF usedAi THEN "Using AI assessment"
                                    ELSE "Using rule-based assessment", final),
                    Entry(r, "System", "Creating audit event", "")>>
         IN  /\ logs' = logs \o e
             /\ own' = [own EXCEPT ![r] = @ \o e]
             /\ run' = [run EXCEPT ![r].pc = "createAudit",
                                   ![r].aiOutcome = outcome.kind,
                                   ![r].aiResult = aiResult,
                                   ![r].usedAi = usedAi,
                                   ![r].finalStatus = final,
                                   ![r].aiReasoning = aiResult.reasoning,
                                   ![r].confidence = aiResult.confidence]
    /\ UNCHANGED <<iot_logs, supplier, audit_events, result, reviewVars, ra, sideVars, env>>

\* db-helpers.ts createAuditEvent: insert one row, or report an error
createAuditEvent(auditData) ==
    Append(audit_events,
           [id |-> Len(audit_events) + 1,
            log_reference_id |-> auditData.log_reference_id,
            status |-> auditData.status,
            agent_reasoning |-> auditData.agent_reasoning,
            confidence_score |-> auditData.confidence_score,
            agent_logs |-> << >>,
            human_action |-> NULL])

\* lines 240-254: the insert answers; on success the update of agent_logs is sent
CreateAudit(r) ==
    /\ run[r].pc = "createAudit"
    /\ \E inserted \in StoreSucceeds :
         IF inserted
         THEN LET e == <<Entry(r, "System", "Audit event created", "")>>
              IN  /\ audit_events' = createAuditEvent(
                         [log_reference_id |-> r,
                          status |-> run[r].finalStatus,
                          agent_reasoning |-> run[r].aiReasoning,
                          confidence_score |-> run[r].confidence])
                  /\ logs' = logs \o e
                  /\ own' = [own EXCEPT ![r] = @ \o e]
                  /\ run' = [run EXCEPT ![r].pc = "storeLogs",
                                        ![r].auditId = Len(audit_events) + 1,
                                        ![r].payload = logs \o e]
                  /\ UNCHANGED result
         ELSE LET e == <<Entry(r, "System", "Failed to create audit event", "")>>
              IN  /\ logs' = logs \o e
                  /\ own' = [own EXCEPT ![r] = @ \o e]
                  /\ result' = [result EXCEPT ![r] = Failure(logs \o e, "Failed to create audit")]
                  /\ run' = [run EXCEPT ![r].pc = "done"]
                  /\ UNCHANGED audit_events
    /\ UNCHANGED <<iot_logs, supplier, reviewVars, ra, sideVars, env>>

\* lines 251-272: the update of agent_logs answers (an error is only warned
\* about), STEP 8 logs the outcome and the call returns
StoreLogs(r) ==
    /\ run[r].pc = "storeLogs"
    /\ \E outcome \in StoreOutcomes :
         IF outcome = "throw"
         THEN Catch(r) /\ UNCHANGED audit_events
         ELSE LET e == <<Entry(r, "System",
                               IF run[r].finalStatus \in {"ANOMALY", "WARNING"}
                               THEN "Notification: Audit requires human review"
                               ELSE "Audit complete", run[r].finalStatus)>>
              IN  /\ audit_events' =
                       IF outcome = "ok"
                       THEN [audit_events EXCEPT ![run[r].auditId].agent_logs = run[r].payload]
                       ELSE audit_events
                  /\ logs' = logs \o e
                  /\ own' = [own EXCEPT ![r] = @ \o e]
                  /\ result' = [result EXCEPT ![r] =
                                   [returned |-> TRUE, success |-> TRUE,
                                    auditId |-> run[r].auditId,
                                    status |-> run[r].finalStatus,
                                    logs |-> logs \o e, error |-> "none"]]
                  /\ run' = [run EXCEPT ![r].pc = "done"]
    /\ UNCHANGED <<iot_logs, supplier, reviewVars, ra, sideVars, env>>

PipelineNext ==
    \E r \in Runs :
        \/ Start(r)
        \/ FetchIotLog(r)
        \/ FetchSupplier(r)
        \/ RulePreCheck(r)
        \/ AiAnalysis(r)
        \/ CreateAudit(r)
        \/ StoreLogs(r)

-----------------------------------------------------------------------------
(* The reviewer side: db-helpers.ts fetchPendingAudits and                 *)
(* updateAuditWithHumanAction, and the dashboard's handlers.  Each         *)
(* dashboard session keeps its own pendingAudits list, refreshed by        *)
(* polling, and offers Verify / Flag for the audits in that list.          *)
(* The repository holds two versions of the dashboard page.  They differ   *)
(* in what handleVerify and handleFlag do once the update has succeeded:   *)
(* src/app/page.tsx leaves the list to the polls, and its handleFlag calls *)
(* loadPendingAudits ("refreshing"); the other version takes the audit off *)
(* the list itself ("filtering").                                          *)

Pages == {"refreshing", "filtering"}

AuditIds == 1..Len(audit_events)

\* a query that filters on the status alone
fetchUnverifiedAudits ==
    {a \in AuditIds : audit_events[a].status \in {"PENDING", "WARNING", "ANOMALY"}}

\* lines 564-605: status in (PENDING, WARNING, ANOMALY) and human_action is null
fetchPendingAudits ==
    {a \in AuditIds : /\ audit_events[a].status \in {"PENDING", "WARNING", "ANOMALY"}
                      /\ audit_events[a].human_action = NULL}

\* the update sets human_action on the row with that id, whatever it holds
updateAuditWithHumanAction(auditId, action) ==
    [audit_events EXCEPT ![auditId].human_action = action]

updateOnlyIfUnset(auditId, action) ==
    IF audit_events[auditId].human_action = NULL
    THEN [audit_events EXCEPT ![auditId].human_action = action]
    ELSE audit_events

NoUpdate == [auditId |-> 0, action |-> NULL, previous |-> NULL, error |-> FALSE]

\* polls: the answers of fetchPendingAudits on their way; updates: the bag
\* of updateAuditWithHumanAction calls on their way
NoCalls == [polls |-> {}, updates |-> EmptyBag]

\* a call of updateAuditWithHumanAction the store has not run yet
Sent(auditId, action) ==
    [auditId |-> auditId, action |-> action, phase |-> "sent", error |-> FALSE]
\* its answer on the way back, with what the handler awaiting it goes by:
\* the error, the id, and, where the page refreshes its list after a flag
\* that succeeded, that the handler is handleFlag
Executed(auditId, action, error) ==
    [auditId |-> auditId,
     action |-> IF ~error /\ action = "FLAGGED" /\ env.page = "refreshing"
                THEN action ELSE NULL,
     phase |-> "executed", error |-> error]

RECURSIVE Sum(_, _)
Sum(f, S) == IF S = {} THEN 0
             ELSE LET x == CHOOSE x \in S : TRUE IN f[x] + Sum(f, S \ {x})

PollsInFlight == Sum([u \in Reviewers |-> Cardinality(inFlight[u].polls)], Reviewers)
ClicksInFlight == Sum([u \in Reviewers |-> BagCardinality(inFlight[u].updates)], Reviewers)

\* loadPendingAudits of either version (at mount and every 5 seconds): the
\* call is made and the store runs the query; the answer is on its way
LoadPendingAudits(u) ==
    /\ PollsInFlight < MaxPolls
    /\ \E answered \in StoreSucceeds :
         inFlight' = [inFlight EXCEPT ![u].polls = @ \cup
                         {IF answered THEN [error |-> FALSE, data |-> fetchPendingAudits]
                                      ELSE [error |-> TRUE, data |-> {}]}]
    /\ UNCHANGED <<orchVars, pendingAudits, lastUpdate, ra, sideVars>>

\* lines 95-101: the answer arrives; on an error the list is left as it is
SetPendingAudits(u) ==
    /\ \E answer \in inFlight[u].polls :
         /\ inFlight' = [inFlight EXCEPT ![u].polls = @ \ {answer}]
         /\ pendingAudits' = IF answer.error THEN pendingAudits
                             ELSE [pendingAudits EXCEPT ![u] = answer.data]
    /\ UNCHANGED <<orchVars, lastUpdate, ra, sideVars>>

\* handleVerify / handleFlag of either version up to their await (lines 124-127,
\* 142-145): the button of a listed audit is clicked and the update is sent
HandleAction(u, auditId, action) ==
    /\ auditId \in pendingAudits[u]
    /\ ClicksInFlight < MaxClicks
    /\ inFlight' = [inFlight EXCEPT ![u].updates = @ (+) SetToBag({Sent(auditId, action)})]
    /\ UNCHANGED <<orchVars, pendingAudits, lastUpdate, ra, sideVars>>

handleVerify(u, auditId) == HandleAction(u, auditId, "APPROVED")
handleFlag(u, auditId) == HandleAction(u, auditId, "FLAGGED")

\* db-helpers.ts updateAuditWithHumanAction: the store runs the update of a
\* call in flight, or fails
ExecuteUpdate(u) ==
    /\ \E call \in BagToSet(inFlight[u].updates), stored \in StoreSucceeds :
         /\ call.phase = "sent"
         /\ lastUpdate' = [auditId |-> call.auditId, action |-> call.action,
                           previous |-> audit_events[call.auditId].human_action,
                           error |-> ~stored]
         /\ audit_events' = IF stored
                            THEN updateAuditWithHumanAction(call.auditId, call.action)
                            ELSE audit_events
         /\ inFlight' = [inFlight EXCEPT ![u].updates =
                             (@ (-) SetToBag({call}))
                                (+) SetToBag({Executed(call.auditId, call.action, ~stored)})]
    /\ UNCHANGED <<iot_logs, supplier, logs, run, result, own, env, pendingAudits, ra, sideVars>>

\* the filtering version, handleVerify / handleFlag after their await: on an
\* error only a message is shown, otherwise the audit leaves this session's
\* list
FilterPendingAudits(u, call) ==
    /\ inFlight' = [inFlight EXCEPT ![u].updates = @ (-) SetToBag({call})]
    /\ pendingAudits' = IF call.error THEN pendingAudits
                        ELSE [pendingAudits EXCEPT ![u] = @ \ {call.auditId}]

\* src/app/page.tsx, handleVerify / handleFlag after their await (lines
\* 143-160, 173-191): on an error only a message is shown; otherwise a toast
\* and a log entry, the list is left as it is, and handleFlag calls
\* loadPendingAudits: the store runs the query and the answer is on its way
ReloadPendingAudits(u, call) ==
    /\ IF ~call.error /\ call.action = "FLAGGED"
       THEN \E answered \in StoreSucceeds :
                /\ PollsInFlight < MaxPolls
                /\ inFlight' = [inFlight EXCEPT
                                  ![u].updates = @ (-) SetToBag({call}),
                                  ![u].polls = @ \cup
                                      {IF answered
                                       THEN [error |-> FALSE, data |-> fetchPendingAudits]
                                       ELSE [error |-> TRUE, data |-> {}]}]
       ELSE inFlight' = [inFlight EXCEPT ![u].updates = @ (-) SetToBag({call})]
    /\ UNCHANGED pendingAudits

\* the answer of the update arrives at the handler of the page served
HandleActionAnswer(u) ==
    /\ \E call \in BagToSet(inFlight[u].updates) :
         /\ call.phase = "executed"
         /\ IF env.page = "filtering"
            THEN FilterPendingAudits(u, call)
            ELSE ReloadPendingAudits(u, call)
    /\ UNCHANGED <<orchVars, lastUpdate, ra, sideVars>>

ReviewNext ==
    \E u \in Reviewers :
        \/ LoadPendingAudits(u)
        \/ SetPendingAudits(u)
        \/ \E a \in AuditIds : handleVerify(u, a)
        \/ \E a \in AuditIds : handleFlag(u, a)
        \/ ExecuteUpdate(u)
        \/ HandleActionAnswer(u)

-----------------------------------------------------------------------------
(* The auditor agent: runAudit, parseGeminiResponse, performFallbackAudit. *)

\* the JavaScript value of  (power / max_load) * 100 > pct
LoadPctExceeds(power, max_load, pct) ==
    IF max_load > 0 THEN power * 100 > pct * max_load
    ELSE IF max_load < 0 THEN power * 100 < pct * max_load
    ELSE power > 0

\* iotData.power > supplierRules.max_load * 1.2
ExceedsBy20Pct(power, max_load) == power * 10 > max_load * 12

HotTemp == 32
ColdTemp == 5
HighLoadPct == 90

ExtremeTemperature(temp) == temp > HotTemp \/ temp < ColdTemp

\* a verdict; its reasoning is a text, of which the model keeps a label and
\* the number of characters
Verdict(verdict, confidence, reasoning) ==
    [verdict |-> verdict, confidence |-> confidence, reasoning |-> reasoning]

\* the number of characters of String(n), n an integer
RECURSIVE Digits(_)
Digits(n) == IF n < 10 THEN 1 ELSE 1 + Digits(n \div 10)
StringLength(n) == IF n < 0 THEN 1 + Digits(-n) ELSE Digits(n)

\* the number of characters of ((num / den) * 100).toFixed(1): "NaN",
\* "Infinity" or "-Infinity" after a division by zero, else a sign for a
\* negative value, the integer digits, the point and one decimal
toFixedLength(num, den) ==
    IF den = 0
    THEN IF num = 0 THEN 3 ELSE IF num > 0 THEN 8 ELSE 9
    ELSE LET a == IF num < 0 THEN -num ELSE num
             b == IF den < 0 THEN -den ELSE den
             tenths == (2000 * a + b) \div (2 * b)
             negative == num # 0 /\ ((num < 0) # (den < 0))
         IN  (IF negative THEN 1 ELSE 0) + Digits(tenths \div 10) + 2

\* performFallbackAudit, lines 446-478: the verdict, the confidence and the
\* reasoning, a template filled with the power, the temperature or the load
\* percentage (loadPercentage - 100 in the first row)
fallbackVerdict(power, max_load, temp) ==
    IF ExceedsBy20Pct(power, max_load)
    THEN Verdict("ANOMALY", 85,
                 Text("exceeds maximum load without clear justification",
                      78 + StringLength(power) + toFixedLength(power - max_load, max_load)))
    ELSE IF power > max_load
    THEN IF ExtremeTemperature(temp)
         THEN Verdict("WARNING", 60, Text("may be justified by extreme temperature",
                                          78 + StringLength(temp)))
         ELSE Verdict("ANOMALY", 75, Text("exceeds maximum load under mild weather",
                                          62 + StringLength(temp)))
    ELSE IF LoadPctExceeds(power, max_load, HighLoadPct)
    THEN Verdict("WARNING", 70, Text("high load utilization warrants monitoring",
                                     46 + toFixedLength(power, max_load)))
    ELSE Verdict("VERIFIED", 80, Text("within acceptable range",
                                      58 + toFixedLength(power, max_load)))

\* a catch block that raises again instead of returning: no verdict
Rethrown(errorMessage) == Verdict("none", 0, Text("rethrown", errorMessage.len))

\* the system-error result of runAudit's catch block, lines 412-427: the
\* reasoning holds the message of the error caught
SystemErrorVerdict(errorMessage) ==
    Verdict("WARNING", 0,
            Text("Audit failed due to system error. Manual review required.",
                 59 + errorMessage.len))

\* getContextData, lines 258-264: the message of the error thrown for a
\* coordinate out of range
coordinateError(lat, lon) ==
    IF lat < -90 \/ lat > 90
    THEN Text("Invalid latitude", 47 + StringLength(lat))
    ELSE Text("Invalid longitude", 50 + StringLength(lon))

\* String.prototype.toUpperCase on the labels of the model
toUpperCase(str) ==
    CASE str = "anomaly" -> "ANOMALY"
      [] str = "Warning" -> "WARNING"
      [] OTHER -> str

(* What the service answers to runAudit: apierror (generateContent rejects),*)
(* notjson (JSON.parse rejects the text), or a JSON object, bare or in a    *)
(* code fence, whose fields are <<v>> when present and truthy candidates,   *)
(* << >> when absent.  A verdict that is not a string is "number".          *)
RawVerdicts == {<<"VERIFIED">>, <<"WARNING">>, <<"anomaly">>, <<"NORMAL">>,
                <<"number">>, << >>}
\* the length of the message generateContent rejects with: "fetch failed",
\* or "Unknown error" (line 413) when what it rejects with is no Error
ApiErrorMessages == {12, 13}
\* the length of the message of JSON.parse, which quotes the text: for an
\* empty text ("Unexpected end of JSON input") and for a text of 13 characters
JsonParseMessages == {28, 55}
AuditorOutcomes ==
    [kind : {"apierror"}, message : ApiErrorMessages]
    \cup [kind : {"notjson"}, message : JsonParseMessages]
    \cup [kind : {"json"}, fenced : BOOLEAN, verdict : RawVerdicts,
          confidence : RawConfidences, reasoning : {<<40>>, << >>}]

\* parseGeminiResponse throws exactly when this holds (lines 255-263)
parseGeminiResponseThrows(responseText) ==
    \/ responseText.kind = "notjson"
    \/ responseText.verdict = << >>
    \/ responseText.confidence = << >>
    \/ responseText.confidence = <<0>>          \* !parsed.confidence
    \/ responseText.reasoning = << >>
    \/ responseText.verdict = <<"number">>      \* toUpperCase is not a function

\* the message of the error parseGeminiResponse throws (line 270): that of
\* JSON.parse, of the check of line 258, or of the TypeError of line 263
parseGeminiResponseError(responseText) ==
    Text("Failed to parse Gemini response",
         33 + (IF responseText.kind = "notjson" THEN responseText.message
               ELSE IF \/ responseText.verdict = << >>
                       \/ responseText.confidence \in {<< >>, <<0>>}
                       \/ responseText.reasoning = << >>
               THEN 42
               ELSE 44))

\* parseGeminiResponse, lines 262-268, when it does not throw
parseGeminiResponse(responseText) ==
    Verdict(toUpperCase(responseText.verdict[1]),
            Max(0, Min(100, responseText.confidence[1])),
            Text("ai", responseText.reasoning[1]))

RaTemps == {4, 5, 20, 32, 33}
\* iotData.latitude and iotData.longitude: within the ranges getContextData
\* accepts, or one of them outside
RaCoordinates == {<<45, 0>>, <<91, 0>>, <<45, 181>>}
\* getContextData, lines 258-264: neither guard throws
ValidCoordinates(lat, lon) ==
    /\ ~(lat < -90 \/ lat > 90)
    /\ ~(lon < -180 \/ lon > 180)

NoVerdict == Verdict("none", 0, Text("none", 0))
\* responseText before the service has answered
NoResponse == [kind |-> "none"]

RaDone(theLogs, verdict) ==
    [ra EXCEPT !.pc = "done", !.logs = theLogs, !.result = verdict]

RaFallback(theLogs, temp) ==
    [ra EXCEPT !.pc = "done", !.logs = theLogs, !.temp = temp,
               !.result = fallbackVerdict(ra.power, ra.max_load, temp)]

\* lines 300-319: start the audit and ask for the context data
RaStart ==
    /\ ra.pc = "ready"
    /\ ra' = [ra EXCEPT !.pc = "context",
                        !.logs = <<"Starting carbon audit analysis",
                                   "Fetching weather and grid data">>]
    /\ UNCHANGED <<orchVars, reviewVars, sideVars>>

\* the RulesEngine entry of STEP 2, lines 336-356
loadLogEntry(power, max_load) ==
    IF power > max_load THEN "Power consumption exceeds maximum load"
    ELSE IF LoadPctExceeds(power, max_load, HighLoadPct) THEN "Approaching maximum load"
    ELSE "Load within acceptable range"

\* lines 319-383: getContextData answers or throws (latitude or longitude
\* out of range); STEP 2 logs the rule check; STEP 3 takes the fallback when no API
\* key is configured, otherwise calls generateContent with the prompt (line 383)
RaContext ==
    /\ ra.pc = "context"
    /\ \E temp \in RaTemps, apiKey \in BOOLEAN :
         IF ~ValidCoordinates(ra.latitude, ra.longitude)
         THEN ra' = RaDone(ra.logs \o <<"Audit failed">>,
                           SystemErrorVerdict(coordinateError(ra.latitude, ra.longitude)))
         ELSE LET l == ra.logs \o <<"Retrieved context data",
                                    "Checking power consumption",
                                    loadLogEntry(ra.power, ra.max_load)>>
              IN  IF ~apiKey
                  THEN ra' = RaFallback(l \o <<"API key not found. Using rule-based fallback analysis.",
                                              "Performing rule-based fallback analysis",
                                              "Fallback verdict">>, temp)
                  ELSE ra' = [ra EXCEPT !.pc = "gemini", !.temp = temp,
                                        !.aiCalls = @ + 1,
                                        !.logs = l \o <<"Initializing AI analysis with Gemini",
                                                       "Sending audit request to Gemini AI">>]
    /\ UNCHANGED <<orchVars, reviewVars, sideVars>>

\* lines 383-428: the service answers; a rejection or an unparsable answer
\* lands in the catch block
RaGemini ==
    /\ ra.pc = "gemini"
    /\ \E outcome \in AuditorOutcomes :
         IF outcome.kind = "apierror"
         THEN ra' = [RaDone(ra.logs \o <<"Audit failed">>,
                            SystemErrorVerdict(Text("generateContent rejected",
                                                    outcome.message)))
                        EXCEPT !.response = outcome]
         ELSE IF parseGeminiResponseThrows(outcome)
         THEN ra' = [RaDone(ra.logs \o <<"Received response from Gemini AI", "Audit failed">>,
                            SystemErrorVerdict(parseGeminiResponseError(outcome)))
                        EXCEPT !.response = outcome]
         ELSE ra' = [RaDone(ra.logs \o <<"Received response from Gemini AI", "AI Verdict",
                                         "Audit completed successfully">>,
                            parseGeminiResponse(outcome))
                        EXCEPT !.response = outcome]
    /\ UNCHANGED <<orchVars, reviewVars, sideVars>>

(* SimulateAuditModal.handleStartAudit: the modal asks getContextData for   *)
(* the context itself, calls runAudit, and after runAudit has returned the *)
(* simulated reading is inserted, an audit event is created for the        *)
(* verdict, runAudit's logs are stored with it, the supplier's ceiling is  *)
(* updated when the bill gave another one, and the page refreshes its      *)
(* pending list.  ra.save is the position of the modal ("none" when        *)
(* runAudit was called by another caller).                                 *)

\* the dashboard session the modal belongs to
PageSession == 1

\* lines 130-170: the modal's own getContextData call answers, and runAudit
\* is called; or it throws (a coordinate out of range), the catch block of
\* lines 252-257 goes back to the bill input and runAudit is never called
GetContextData ==
    /\ ra.pc = "absent"
    /\ ra.save = "context"
    /\ ra' = IF ValidCoordinates(ra.latitude, ra.longitude)
             THEN [ra EXCEPT !.pc = "ready", !.save = "audit"]
             ELSE [ra EXCEPT !.save = "failed"]
    /\ UNCHANGED <<orchVars, reviewVars, sideVars>>

\* lines 195-214: insertIotLog answers; without a saved reading no audit
\* event is created
SaveIotLog ==
    /\ ra.pc = "done"
    /\ ra.save = "audit"
    /\ \E inserted \in StoreSucceeds :
         IF inserted
         THEN /\ iot_logs' = [iot_logs EXCEPT ![SimulatedLogId].energy_kwh = ra.power]
              /\ ra' = [ra EXCEPT !.save = "createAudit"]
         ELSE /\ ra' = [ra EXCEPT !.save = "updateSupplier"]
              /\ UNCHANGED iot_logs
    /\ UNCHANGED <<supplier, audit_events, logs, run, result, own, env, reviewVars, sideVars>>

\* lines 219-228: createAuditEvent answers
SaveAuditEvent ==
    /\ ra.save = "createAudit"
    /\ \E inserted \in StoreSucceeds :
         IF inserted
         THEN /\ audit_events' = createAuditEvent(
                     [log_reference_id |-> SimulatedLogId,
                      status |-> ra.result.verdict,
                      agent_reasoning |-> ra.result.reasoning,
                      confidence_score |-> ra.result.confidence])
              /\ ra' = [ra EXCEPT !.save = "storeLogs", !.auditId = Len(audit_events) + 1]
         ELSE /\ ra' = [ra EXCEPT !.save = "updateSupplier"]
              /\ UNCHANGED audit_events
    /\ UNCHANGED <<iot_logs, supplier, logs, run, result, own, env, reviewVars, sideVars>>

\* lines 229-236: the update of agent_logs answers; its result is not read,
\* a rejection lands in the catch block of lines 252-257
SaveAgentLogs ==
    /\ ra.save = "storeLogs"
    /\ \E outcome \in StoreOutcomes :
         /\ audit_events' =
                IF outcome = "ok"
                THEN [audit_events EXCEPT ![ra.auditId].agent_logs = ra.logs]
                ELSE audit_events
         /\ ra' = [ra EXCEPT !.save = IF outcome = "throw" THEN "failed"
                                                           ELSE "updateSupplier"]
    /\ UNCHANGED <<iot_logs, supplier, logs, run, result, own, env, reviewVars, sideVars>>

\* lines 239-246: the supplier's ceiling is updated when the bill's differs
UpdateSupplierMaxLoad ==
    /\ ra.save = "updateSupplier"
    /\ IF ra.max_load # supplier.bill_max_load_kwh
       THEN \E outcome \in StoreOutcomes :
                /\ supplier' = IF outcome = "ok"
                               THEN [supplier EXCEPT !.bill_max_load_kwh = ra.max_load]
                               ELSE supplier
                /\ ra' = [ra EXCEPT !.save = IF outcome = "throw" THEN "failed"
                                                                  ELSE "result"]
       ELSE /\ ra' = [ra EXCEPT !.save = "result"]
            /\ UNCHANGED supplier
    /\ UNCHANGED <<iot_logs, audit_events, logs, run, result, own, env, reviewVars, sideVars>>

\* line 249 and page.tsx handleAuditComplete (part_007 lines 173-184): for a
\* verdict other than VERIFIED the page calls fetchPendingAudits; the store
\* runs the query and the answer is on its way
handleAuditComplete ==
    /\ ra.save = "result"
    /\ ra' = [ra EXCEPT !.save = "complete"]
    /\ IF ra.result.verdict # "VERIFIED"
       THEN \E answered \in StoreSucceeds :
                inFlight' = [inFlight EXCEPT ![PageSession].polls = @ \cup
                                {IF answered
                                 THEN [error |-> FALSE, data |-> fetchPendingAudits]
                                 ELSE [error |-> TRUE, data |-> {}]}]
       ELSE UNCHANGED inFlight
    /\ UNCHANGED <<orchVars, pendingAudits, lastUpdate, sideVars>>

\* part_007 lines 184-188: the answer arrives; without data the list stays
RefreshPendingAudits ==
    /\ ra.save = "complete"
    /\ SetPendingAudits(PageSession)

handleStartAudit ==
    \/ GetContextData
    \/ SaveIotLog
    \/ SaveAuditEvent
    \/ SaveAgentLogs
    \/ UpdateSupplierMaxLoad
    \/ handleAuditComplete
    \/ RefreshPendingAudits

\* runAudit alone, as any caller gets it
runAudit == RaStart \/ RaContext \/ RaGemini

AuditNext == runAudit \/ handleStartAudit

-----------------------------------------------------------------------------
(* The context agent of the auditor: getContextData, fetchWeatherData,     *)
(* fetchGridData and the mock generators.                                  *)
(*                                                                         *)
(* A JavaScript number is [kind, v]: a number, NaN or undefined.           *)
(* Temperatures of this section are tenths of a degree Celsius.  A value   *)
(* that may be null is << >> (null) or <<value>>.                          *)

Num(v) == [kind |-> "number", v |-> v]
NaN == [kind |-> "NaN", v |-> 0]
Undefined == [kind |-> "undefined", v |-> 0]

Lats == {-91, 0, 45, 90}
Lons == {-180, 0, 5, 189}

(* What the weather provider does: nokey (no API key), failed (fetch       *)
(* rejects, the status is not ok, or the body is not JSON), or ok with a   *)
(* body: main is << >> when the body has no "main", else <<[temp,          *)
(* humidity]>> whose fields are <<v>> or << >>; weather is "absent",       *)
(* "empty" (an empty array) or "Rain".                                     *)
WeatherBodies ==
    [main : {<< >>} \cup {<<m>> : m \in [temp : {<<300>>, << >>},
                                          humidity : {<<65>>, << >>}]},
     weather : {"absent", "empty", "Rain"}]
WeatherOutcomes ==
    {[kind |-> "nokey"], [kind |-> "failed"]}
    \cup {[kind |-> "ok", body |-> b] : b \in WeatherBodies}

\* fetchWeatherData, lines 93-124: the WeatherData, or null
fetchWeatherData(outcome) ==
    IF outcome.kind # "ok" THEN << >>
    ELSE IF outcome.body.main = << >> THEN << >>        \* data.main.temp throws
    ELSE IF outcome.body.weather = "absent" THEN << >>  \* data.weather[0] throws
    ELSE LET main == outcome.body.main[1]
         IN  <<[temp_c |-> IF main.temp = << >> THEN NaN
                           ELSE Num(10 * main.temp[1] - 2731),
                condition |-> IF outcome.body.weather = "empty" THEN "Unknown"
                              ELSE outcome.body.weather,
                humidity |-> IF main.humidity = << >> THEN Undefined
                             ELSE Num(main.humidity[1])]>>

(* What the grid provider does: nokey, failed, or ok with a body whose     *)
(* carbonIntensity is <<v>> or << >>.                                      *)
GridOutcomes ==
    {[kind |-> "nokey"], [kind |-> "failed"]}
    \cup {[kind |-> "ok", carbonIntensity |-> c] : c \in {<<450>>, <<620>>, << >>}}

\* fetchGridData, lines 132-172: the GridData, or null
fetchGridData(outcome) ==
    IF outcome.kind # "ok" THEN << >>
    ELSE IF outcome.carbonIntensity = << >>
    THEN <<[grid_carbon_intensity |-> NaN, is_high_intensity |-> FALSE]>>
    ELSE <<[grid_carbon_intensity |-> Num(outcome.carbonIntensity[1]),
            is_high_intensity |-> outcome.carbonIntensity[1] > 500]>>

Abs(x) == IF x < 0 THEN -x ELSE x

\* getMockWeatherData, lines 178-207: the values Math.random can lead to,
\* at the ends of each range
getMockWeatherData(lat) ==
    IF 2 * Abs(lat) < 47
    THEN [temp_c : {Num(280), Num(319)}, condition : {"Clear", "Partly Cloudy"},
          humidity : {Num(70), Num(89)}]
    ELSE IF 2 * Abs(lat) < 133
    THEN [temp_c : {Num(150), Num(299)}, condition : {"Clear", "Partly Cloudy", "Cloudy"},
          humidity : {Num(50), Num(79)}]
    ELSE [temp_c : {Num(-50), Num(99)}, condition : {"Cloudy", "Snow"},
          humidity : {Num(60), Num(79)}]

\* getMockGridData, lines 213-231; peak is 18 <= hour <= 21.  baseIntensity
\* is the real number ninths / 9, and Math.round rounds the product to the
\* nearest integer (no tie occurs: 9 and 15 are odd)
getMockGridData(lon, peak) ==
    LET ninths == 2700 + (lon + 180) * 10
        intensity == IF peak THEN (4 * ninths + 15) \div 30
                             ELSE (2 * ninths + 9) \div 18
    IN  [grid_carbon_intensity |-> Num(intensity), is_high_intensity |-> intensity > 500]

\* lines 279-282: where each half of the result came from
sourceOfBoth(weatherData, gridData) ==
    [weather |-> IF weatherData # << >> /\ gridData # << >> THEN "api" ELSE "mock",
     grid |-> IF weatherData # << >> /\ gridData # << >> THEN "api" ELSE "mock"]

source(weatherData, gridData) ==
    [weather |-> IF weatherData # << >> THEN "api" ELSE "mock",
     grid |-> IF gridData # << >> THEN "api" ELSE "mock"]

NoOutcome == [kind |-> "none"]
NoContextData == << >>

NewContextCall(pc, lat, lon) ==
    [pc |-> pc, lat |-> lat, lon |-> lon,
     weatherOutcome |-> NoOutcome, weatherData |-> << >>,
     gridOutcome |-> NoOutcome, gridData |-> << >>,
     result |-> NoContextData, earlier |-> << >>]

\* lines 254-271: the coordinates are validated, then both lookups are started
ValidateCoordinates ==
    /\ cd.pc = "ready"
    /\ cd' = [cd EXCEPT !.pc = IF cd.lat < -90 \/ cd.lat > 90 \/ cd.lon < -180 \/ cd.lon > 180
                               THEN "thrown" ELSE "fetching"]
    /\ UNCHANGED <<orchVars, reviewVars, ra, post>>

\* fetchWeatherData settles
WeatherAnswers ==
    /\ cd.pc = "fetching"
    /\ cd.weatherOutcome = NoOutcome
    /\ \E outcome \in WeatherOutcomes :
         cd' = [cd EXCEPT !.weatherOutcome = outcome,
                          !.weatherData = fetchWeatherData(outcome)]
    /\ UNCHANGED <<orchVars, reviewVars, ra, post>>

\* fetchGridData settles
GridAnswers ==
    /\ cd.pc = "fetching"
    /\ cd.gridOutcome = NoOutcome
    /\ \E outcome \in GridOutcomes :
         cd' = [cd EXCEPT !.gridOutcome = outcome,
                          !.gridData = fetchGridData(outcome)]
    /\ UNCHANGED <<orchVars, reviewVars, ra, post>>

\* lines 268-295: Promise.all has settled; the mock data fill in for a null
\* and the result is returned
ReturnContext ==
    /\ cd.pc = "fetching"
    /\ cd.weatherOutcome # NoOutcome
    /\ cd.gridOutcome # NoOutcome
    /\ \E mockWeather \in getMockWeatherData(cd.lat), peak \in BOOLEAN :
         cd' = [cd EXCEPT !.pc = "done",
                          !.result = <<[weather |-> IF cd.weatherData # << >>
                                                    THEN cd.weatherData[1] ELSE mockWeather,
                                        grid |-> IF cd.gridData # << >>
                                                 THEN cd.gridData[1]
                                                 ELSE getMockGridData(cd.lon, peak),
                                        source |-> source(cd.weatherData, cd.gridData)]>>]
    /\ UNCHANGED <<orchVars, reviewVars, ra, post>>

ContextNext == ValidateCoordinates \/ WeatherAnswers \/ GridAnswers \/ ReturnContext

\* getContextData is called a second time for the same reading (the same
\* coordinates), at some later wall-clock time; earlier keeps the grid half
\* and the source of the first result
EnrichAgain ==
    /\ cd.pc = "done"
    /\ cd.earlier = << >>
    /\ cd' = [NewContextCall("ready", cd.lat, cd.lon)
                  EXCEPT !.earlier = <<[grid |-> cd.result[1].grid,
                                        source |-> cd.result[1].source]>>]
    /\ UNCHANGED <<orchVars, reviewVars, ra, post>>

-----------------------------------------------------------------------------
(* The ingestion endpoint: POST /api/ingest-iot.                           *)
(*                                                                         *)
(* The request body is an input: valid (with its energy_kwh), missing (a   *)
(* required field is absent), negative (a numeric field is below zero or   *)
(* not a number), badtime (the timestamp does not parse), notjson          *)
(* (request.json() rejects) or notobject (the JSON value is null or a      *)
(* primitive, on which the `in` of the required-field check throws).       *)

Bodies ==
    {[kind |-> k, energy_kwh |-> 0] : k \in {"missing", "negative", "badtime", "notjson", "notobject"}}
    \cup {[kind |-> "valid", energy_kwh |-> e] : e \in {18, 23, 25}}

Response(status, success, logId, message) ==
    [status |-> status, success |-> success, logId |-> logId, message |-> message]

NoHttpResponse == Response(0, FALSE, 0, "none")
ValidationFailed == Response(400, FALSE, 0, "Validation failed")
FailedToSave == Response(500, FALSE, 0, "Failed to save data")
InternalServerError == Response(500, FALSE, 0, "Internal server error")

\* an endpoint that reports the outcome of the run it started
CreatedAfterAnalysis(logId) ==
    IF result[logId].returned /\ ~result[logId].success
    THEN InternalServerError
    ELSE Response(201, TRUE, logId, "IoT data received and queued for analysis")

\* lines 825-832: the acknowledgment
Created(logId) ==
    Response(201, TRUE, logId, "IoT data received and queued for analysis")

NewRequest(pc, body) ==
    [pc |-> pc, body |-> body, supplier |-> "unknown", inserted |-> "unknown",
     logId |-> 0, response |-> NoHttpResponse]

Respond(response) == [post EXCEPT !.pc = "responded", !.response = response]

\* the id the store gives to the inserted row: the first reading id not in use
NextLogId == CHOOSE r \in Runs : run[r].pc = "absent" /\ \A q \in Runs : q < r => run[q].pc # "absent"

\* lines 749-789: the body is parsed and validated, the supplier is asked for
PostValidate ==
    /\ post.pc = "received"
    /\ post' = CASE post.body.kind \in {"notjson", "notobject"} -> Respond(InternalServerError)
                 [] post.body.kind = "valid" -> [post EXCEPT !.pc = "supplier"]
                 [] OTHER -> Respond(ValidationFailed)
    /\ UNCHANGED <<orchVars, reviewVars, ra, cd>>

\* an endpoint that does not look at the answer of the supplier lookup
PostSupplierUnchecked ==
    /\ post.pc = "supplier"
    /\ \E found \in StoreSucceeds :
         post' = [post EXCEPT !.pc = "insert",
                              !.supplier = IF found THEN "found" ELSE "missing"]
    /\ UNCHANGED <<orchVars, reviewVars, ra, cd>>

\* lines 789-811: the supplier lookup answers; the insert is sent
PostSupplier ==
    /\ post.pc = "supplier"
    /\ \E found \in StoreSucceeds :
         post' = IF found THEN [post EXCEPT !.pc = "insert", !.supplier = "found"]
                 ELSE [Respond(ValidationFailed) EXCEPT !.supplier = "missing"]
    /\ UNCHANGED <<orchVars, reviewVars, ra, cd>>

\* lines 811-822: the insert answers; on success triggerAgentAnalysis is
\* called for the inserted row and not awaited
PostInsert ==
    /\ post.pc = "insert"
    /\ \E r \in Runs : run[r].pc = "absent"
    /\ \E inserted \in StoreSucceeds :
         IF inserted
         THEN /\ iot_logs' = [iot_logs EXCEPT ![NextLogId].energy_kwh = post.body.energy_kwh]
              /\ run' = [run EXCEPT ![NextLogId].pc = "ready"]
              /\ post' = [post EXCEPT !.pc = "triggered", !.inserted = "ok",
                                       !.logId = NextLogId]
         ELSE /\ post' = [Respond(FailedToSave) EXCEPT !.inserted = "error"]
              /\ UNCHANGED <<iot_logs, run>>
    /\ UNCHANGED <<supplier, audit_events, logs, result, own, env, reviewVars, ra, cd>>

\* lines 824-832: the call of processIotLog has run up to its first await
\* and the acknowledgment is returned
PostRespond ==
    /\ post.pc = "triggered"
    /\ run[post.logId].pc # "ready"
    /\ post' = Respond(Created(post.logId))
    /\ UNCHANGED <<orchVars, reviewVars, ra, cd>>

IngestNext == PostValidate \/ PostSupplier \/ PostInsert \/ PostRespond

-----------------------------------------------------------------------------
(* Initial states and specifications *)

NewAudit(pc, power, max_load) ==
    [pc |-> pc, power |-> power, max_load |-> max_load, temp |-> 0,
     logs |-> << >>, aiCalls |-> 0, response |-> NoResponse, result |-> NoVerdict,
     latitude |-> 45, longitude |-> 0, save |-> "none", auditId |-> 0]

\* the store holds one reading per run and the supplier's row; nothing has run
InitStore ==
    /\ iot_logs \in [LogIds -> [energy_kwh : Energies]]
    /\ iot_logs[SimulatedLogId].energy_kwh = 0
    /\ supplier \in [bill_max_load_kwh : MaxLoads]
    /\ audit_events = << >>
    /\ logs = << >>
    /\ result = [r \in Runs |-> NoResult]
    /\ own = [r \in Runs |-> << >>]
    /\ pendingAudits = [u \in Reviewers |-> {}]
    /\ lastUpdate = NoUpdate
    /\ inFlight = [u \in Reviewers |-> NoCalls]

\* neither getContextData nor the ingestion endpoint has been called
NoSideCalls ==
    /\ cd = NewContextCall("absent", 0, 0)
    /\ post = NewRequest("absent", [kind |-> "none", energy_kwh |-> 0])

AnyWorld ==
    [answers |-> GeminiOutcomes, weathers |-> Weathers, grids |-> GridIntensities,
     store |-> {"ok", "error", "throw"}, page |-> "refreshing"]

\* a world with a few representative answers, for the specifications whose
\* subject is the interleaving and not the classification
SmallWorld ==
    [answers |-> {[kind |-> "nokey"],
                  [kind |-> "json", status |-> <<"NORMAL">>, confidence |-> <<60>>,
                   reasoning |-> <<40>>]},
     weathers |-> {[temperature |-> 30, condition |-> "Clear"]},
     grids |-> {750},
     store |-> {"ok", "error", "throw"}, page |-> "refreshing"]

\* the same world with a store that always answers
QuietWorld == [SmallWorld EXCEPT !.store = {"ok"}]

\* one stored reading is processed by the orchestrator
Init ==
    /\ InitStore
    /\ \A r \in Runs : iot_logs[r] = iot_logs[1]
    /\ run = [r \in Runs |-> IF r = 1 THEN NewRun("ready") ELSE NewRun("absent")]
    /\ ra = NewAudit("absent", 0, 0)
    /\ NoSideCalls
    /\ env = AnyWorld

Next == PipelineNext \/ ReviewNext

Spec == Init /\ [][PipelineNext]_vars

\* the ingestion endpoint has started a run for each of two readings
ReviewEnergies == {18, 23, 25}

InitConc ==
    /\ InitStore
    /\ supplier.bill_max_load_kwh = 20
    /\ \A r \in Runs : iot_logs[r].energy_kwh \in ReviewEnergies
    /\ iot_logs[1].energy_kwh =< iot_logs[2].energy_kwh
    /\ run = [r \in Runs |-> NewRun("ready")]
    /\ ra = NewAudit("absent", 0, 0)
    /\ NoSideCalls
    /\ env = QuietWorld

SpecConc == InitConc /\ [][PipelineNext]_vars

\* a store that answers or reports an error, so that a lookup may fail
LossyWorld == [SmallWorld EXCEPT !.store = {"ok", "error"}]

\* a reading below 90% of the ceiling of 20, and one more than 10% over it
RepeatEnergies == {17, 23}

\* the ingestion endpoint has started a run for each of two readings of the
\* same supplier that carry the same energy
InitRepeat ==
    /\ InitStore
    /\ supplier.bill_max_load_kwh = 20
    /\ iot_logs[1].energy_kwh \in RepeatEnergies
    /\ \A r \in Runs : iot_logs[r] = iot_logs[1]
    /\ run = [r \in Runs |-> NewRun("ready")]
    /\ ra = NewAudit("absent", 0, 0)
    /\ NoSideCalls
    /\ env = LossyWorld

SpecRepeat == InitRepeat /\ [][PipelineNext]_vars

\* a world without an API key for the AI service, and with a store that
\* answers or reports an error
ReviewWorld ==
    [SmallWorld EXCEPT !.answers = {[kind |-> "nokey"]}, !.store = {"ok", "error"}]

\* one stored reading is processed, and two dashboard sessions of the page
\* served review the audit
InitReview ==
    /\ InitStore
    /\ supplier.bill_max_load_kwh = 20
    /\ \A r \in Runs : iot_logs[r] = iot_logs[1]
    /\ iot_logs[1].energy_kwh \in ReviewEnergies
    /\ run = [r \in Runs |-> IF r = 1 THEN NewRun("ready") ELSE NewRun("absent")]
    /\ ra = NewAudit("absent", 0, 0)
    /\ NoSideCalls
    /\ \E page \in Pages : env = [ReviewWorld EXCEPT !.page = page]

SpecReview == InitReview /\ [][Next]_vars

(* Progress of one run.  The store answers every call, so each step that   *)
(* waits for the store is taken; the AI service owes no answer, and the    *)
(* code sets no timeout on generateContent, so nothing forces AiAnalysis.  *)
AnsweredNext ==
    \E r \in Runs :
        \/ Start(r)
        \/ FetchIotLog(r)
        \/ FetchSupplier(r)
        \/ RulePreCheck(r)
        \/ CreateAudit(r)
        \/ StoreLogs(r)

\* one stored reading of any supplier is processed
InitLive ==
    /\ InitStore
    /\ \A r \in Runs : iot_logs[r] = iot_logs[1]
    /\ iot_logs[1].energy_kwh \in ReviewEnergies
    /\ run = [r \in Runs |-> IF r = 1 THEN NewRun("ready") ELSE NewRun("absent")]
    /\ ra = NewAudit("absent", 0, 0)
    /\ NoSideCalls
    /\ env = SmallWorld

SpecLive == InitLive /\ [][PipelineNext]_vars /\ WF_vars(AnsweredNext)

\* the audit simulation is started with a reading and the bill's ceiling
InitAudit ==
    /\ InitStore
    /\ supplier.bill_max_load_kwh = 20
    /\ \A r \in Runs : iot_logs[r].energy_kwh = 0
    /\ run = [r \in Runs |-> NewRun("absent")]
    /\ \E power \in Energies, max_load \in MaxLoads, coordinates \in RaCoordinates :
         ra = [NewAudit("absent", power, max_load)
                  EXCEPT !.latitude = coordinates[1], !.longitude = coordinates[2],
                         !.save = "context"]
    /\ NoSideCalls
    /\ env = AnyWorld

SpecAudit == InitAudit /\ [][AuditNext]_vars

\* a world where the AI service may answer anything and the store answers
AnswerWorld ==
    [answers |-> GeminiOutcomes,
     weathers |-> {[temperature |-> 30, condition |-> "Clear"]},
     grids |-> {750},
     store |-> {"ok"}, page |-> "refreshing"]

\* both adapters of the AI service at work: processIotLog processes a
\* reading (and calls analyzeEnergyAnomaly) while runAudit audits it
InitAdapters ==
    /\ InitStore
    /\ supplier.bill_max_load_kwh = 20
    /\ \A r \in Runs : iot_logs[r] = iot_logs[1]
    /\ iot_logs[1].energy_kwh \in ReviewEnergies
    /\ run = [r \in Runs |-> IF r = 1 THEN NewRun("ready") ELSE NewRun("absent")]
    /\ \E coordinates \in RaCoordinates :
         ra = [NewAudit("ready", iot_logs[1].energy_kwh, 20)
                  EXCEPT !.latitude = coordinates[1], !.longitude = coordinates[2]]
    /\ NoSideCalls
    /\ env = AnswerWorld

SpecAdapters == InitAdapters /\ [][PipelineNext \/ runAudit]_vars

\* a world where the weather differs from one run to the next: dry and
\* warm, or rainy
ContextWorld ==
    [QuietWorld EXCEPT !.weathers = {[temperature |-> 30, condition |-> "Clear"],
                                     [temperature |-> 30, condition |-> "Rainy"]}]

ContextEnergies == {19, 23}

\* two readings are processed, each under the weather of its own moment
InitContextual ==
    /\ InitStore
    /\ supplier.bill_max_load_kwh = 20
    /\ \A r \in Runs : iot_logs[r].energy_kwh \in ContextEnergies
    /\ iot_logs[1].energy_kwh =< iot_logs[2].energy_kwh
    /\ run = [r \in Runs |-> NewRun("ready")]
    /\ ra = NewAudit("absent", 0, 0)
    /\ NoSideCalls
    /\ env = ContextWorld

SpecContextual == InitContextual /\ [][PipelineNext]_vars

\* nothing is stored or running
Idle ==
    /\ InitStore
    /\ supplier.bill_max_load_kwh = 20
    /\ \A r \in Runs : iot_logs[r].energy_kwh = 0
    /\ run = [r \in Runs |-> NewRun("absent")]

\* getContextData is called with a latitude and a longitude
InitContext ==
    /\ Idle
    /\ ra = NewAudit("absent", 0, 0)
    /\ \E lat \in Lats, lon \in Lons : cd = NewContextCall("ready", lat, lon)
    /\ post = NewRequest("absent", [kind |-> "none", energy_kwh |-> 0])
    /\ env = AnyWorld

SpecContext == InitContext /\ [][ContextNext]_vars

\* the same reading is enriched twice
SpecEnrichTwice == InitContext /\ [][ContextNext \/ EnrichAgain]_vars

\* a request arrives at the ingestion endpoint
InitIngest ==
    /\ Idle
    /\ ra = NewAudit("absent", 0, 0)
    /\ cd = NewContextCall("absent", 0, 0)
    /\ \E body \in Bodies : post = NewRequest("received", body)
    /\ env = SmallWorld

SpecIngest == InitIngest /\ [][IngestNext \/ PipelineNext]_vars

-----------------------------------------------------------------------------
(* Properties *)

Has(seq, x) == \E i \in 1..Len(seq) : seq[i] = x

\* the audit events persisted for the reading of run r
AuditsOf(r) == {a \in AuditIds : audit_events[a].log_reference_id = r}

\* the run has passed reconciliation
Reconciled(r) == run[r].aiResult.status # "none"

\* the severity order of the specification: VERIFIED (= NORMAL) < WARNING < ANOMALY
SeverityRank(status) ==
    CASE status \in {"VERIFIED", "NORMAL"} -> 0
      [] status = "WARNING" -> 1
      [] status = "ANOMALY" -> 2

\* runAudit got its context data, so what follows is the AI stage
RaHasContext == Has(ra.logs, "Retrieved context data")
\* runAudit took the fallback of performFallbackAudit
RaTookFallback == ra.pc = "done" /\ Has(ra.logs, "Fallback verdict")
\* runAudit sent the prompt and the primary path did not produce a verdict
RaPrimaryFailed ==
    /\ ra.pc = "done"
    /\ Has(ra.logs, "Sending audit request to Gemini AI")
    /\ ~Has(ra.logs, "Audit completed successfully")

(* C1. Floor property: a reading more than 20% over the load ceiling ends  *)
(* with final severity ANOMALY, whatever the AI classifier answers and     *)
(* also when the AI stage fails: for the audits the orchestrator persists  *)
(* and for the verdict runAudit returns.                                   *)
C1_FloorProperty ==
    /\ \A r \in Runs : \A a \in AuditsOf(r) :
          (run[r].billMaxLoad > 0
             /\ (run[r].energy_kwh - run[r].billMaxLoad) * 100 > 20 * run[r].billMaxLoad)
          => audit_events[a].status = "ANOMALY"
    /\ (ra.pc = "done" /\ RaHasContext /\ ra.max_load > 0
          /\ (ra.power - ra.max_load) * 100 > 20 * ra.max_load)
       => ra.result.verdict = "ANOMALY"

(* The floor as processIotLog alone provides it: every audit it persists   *)
(* for a reading more than 20% over a positive ceiling is an ANOMALY.      *)
OrchestratorFloor ==
    \A r \in Runs : \A a \in AuditsOf(r) :
        (run[r].billMaxLoad > 0
           /\ (run[r].energy_kwh - run[r].billMaxLoad) * 100 > 20 * run[r].billMaxLoad)
        => audit_events[a].status = "ANOMALY"

(* C2. Severity monotonicity: under VERIFIED (= NORMAL) < WARNING < ANOMALY *)
(* the reconciled severity, and the status persisted with it, is never     *)
(* lower than the rule severity and never lower than the severity the AI   *)
(* returned.                                                               *)
C2_SeverityMonotonic ==
    \A r \in Runs :
        Reconciled(r) =>
            /\ SeverityRank(run[r].finalStatus) >= SeverityRank(run[r].preliminaryStatus)
            /\ run[r].aiResult.status \in {"NORMAL", "WARNING", "ANOMALY"}
                 => SeverityRank(run[r].finalStatus) >= SeverityRank(run[r].aiResult.status)
            /\ \A a \in AuditsOf(r) : audit_events[a].status = run[r].finalStatus

C2_Witness ==
    /\ run[1].pc = "done"
    /\ run[1].preliminaryStatus = "WARNING"
    /\ run[1].aiResult.status = "ANOMALY"
    /\ \E a \in AuditsOf(1) : audit_events[a].status = "ANOMALY"

(* C3. No silent drop: when a call of processIotLog has ended, exactly one *)
(* audit event is persisted for its reading, whatever failed on the way.   *)
C3_NoSilentDrop ==
    \A r \in Runs : run[r].pc = "done" => Cardinality(AuditsOf(r)) = 1

(* C4. System-error verdict: when a stage raised an unexpected error, the  *)
(* run ends with a persisted verdict of severity WARNING and confidence 0. *)
C4_SystemErrorVerdict ==
    \A r \in Runs :
        (result[r].returned /\ result[r].error = "thrown") =>
            \E a \in AuditsOf(r) : /\ audit_events[a].status = "WARNING"
                                   /\ audit_events[a].confidence_score = 0

(* C5. Pass-through of the selected verdict: when the rule severity is     *)
(* strictly higher than the AI severity, the persisted confidence and      *)
(* reasoning are the rule verdict's (the rule-based assessment and its     *)
(* confidence); otherwise they are the AI verdict's, unchanged.            *)
C5_PassThrough ==
    \A r \in Runs : \A a \in AuditsOf(r) :
        run[r].aiResult.status \in {"NORMAL", "WARNING", "ANOMALY"} =>
            IF SeverityRank(run[r].preliminaryStatus) > SeverityRank(run[r].aiResult.status)
            THEN /\ audit_events[a].agent_reasoning = RuleReasoning
                 /\ audit_events[a].confidence_score = DefaultConfidence
            ELSE /\ audit_events[a].agent_reasoning = run[r].aiResult.reasoning
                 /\ audit_events[a].confidence_score = run[r].aiResult.confidence

(* C6. Rule Classifier thresholds: for a positive ceiling the preliminary  *)
(* severity is ANOMALY exactly when the reading is more than 20% over it,  *)
(* WARNING exactly when it is more than 10% and at most 20% over, VERIFIED *)
(* otherwise; exactly 20% over (420 against 350) is WARNING and exactly    *)
(* 10% over is VERIFIED.                                                   *)
C6_RuleThresholds ==
    \A r \in Runs :
        (run[r].preliminaryStatus # "none" /\ run[r].billMaxLoad > 0) =>
            LET over == (run[r].energy_kwh - run[r].billMaxLoad) * 100
                m == run[r].billMaxLoad
                st == run[r].preliminaryStatus
            IN  /\ st = "ANOMALY" <=> over > 20 * m
                /\ st = "WARNING" <=> (over > 10 * m /\ over =< 20 * m)
                /\ st = "VERIFIED" <=> over =< 10 * m
                /\ run[r].energy_kwh * 350 = 420 * m => st = "WARNING"
                /\ run[r].energy_kwh * 10 = 11 * m => st = "VERIFIED"

C6_Witness ==
    /\ run[1].energy_kwh = 24
    /\ run[1].billMaxLoad = 20
    /\ run[1].preliminaryStatus = "WARNING"

(* C7. Isolation of concurrent runs: the trace a call returns, and the     *)
(* trace it persists with its audit, hold exactly the entries that call    *)
(* logged, in order, and no entry of another call.                         *)
C7_TraceIsolation ==
    \A r \in Runs :
        /\ result[r].returned => result[r].logs = own[r]
        /\ \A a \in AuditsOf(r) :
              audit_events[a].agent_logs # << >> =>
                  /\ Len(audit_events[a].agent_logs) =< Len(own[r])
                  /\ audit_events[a].agent_logs =
                         SubSeq(own[r], 1, Len(audit_events[a].agent_logs))

(* C8. humanAction is set exactly once: a call of                          *)
(* updateAuditWithHumanAction for an audit whose human_action is already   *)
(* set fails.                                                              *)
C8_HumanActionOnce ==
    lastUpdate.previous # NULL => lastUpdate.error

(* C9. AI fallback coverage: when no API key is configured, or the primary *)
(* path fails, runAudit returns the verdict of the local heuristic         *)
(* fallback.                                                               *)
C9_FallbackCoverage ==
    (RaTookFallback \/ RaPrimaryFailed) =>
        ra.result = fallbackVerdict(ra.power, ra.max_load, ra.temp)

(* C10.  Fallback decision table: ANOMALY/85 when energy is more           *)
(* than 20% over the ceiling; else ANOMALY/75 when over the ceiling at a   *)
(* moderate temperature; else WARNING/60 when over the ceiling at an       *)
(* extreme temperature; else WARNING/70 when energy is at least 90% of the *)
(* ceiling; else VERIFIED/80.                                              *)
C10_FallbackTableAtLeast90 ==
    (RaTookFallback /\ ra.max_load > 0) =>
        LET p == ra.power
            m == ra.max_load
            extreme == ra.temp > 32 \/ ra.temp < 5
            expected ==
                IF p * 10 > m * 12 THEN <<"ANOMALY", 85>>
                ELSE IF p > m /\ ~extreme THEN <<"ANOMALY", 75>>
                ELSE IF p > m /\ extreme THEN <<"WARNING", 60>>
                ELSE IF p * 100 >= 90 * m THEN <<"WARNING", 70>>
                ELSE <<"VERIFIED", 80>>
        IN  <<ra.result.verdict, ra.result.confidence>> = expected

(* The table as performFallbackAudit has it (line 470, loadPercentage > 90): *)
(* WARNING/70 only when energy is strictly more than 90% of the ceiling.   *)
FallbackTableStrict ==
    RaTookFallback =>
        LET p == ra.power
            m == ra.max_load
            extreme == ra.temp > 32 \/ ra.temp < 5
            expected ==
                IF p * 10 > m * 12 THEN <<"ANOMALY", 85>>
                ELSE IF p > m /\ ~extreme THEN <<"ANOMALY", 75>>
                ELSE IF p > m /\ extreme THEN <<"WARNING", 60>>
                ELSE IF p * 100 > 90 * m THEN <<"WARNING", 70>>
                ELSE <<"VERIFIED", 80>>
        IN  <<ra.result.verdict, ra.result.confidence>> = expected

(* C11. Validity of AI verdicts: when the service has answered runAudit,   *)
(* a verdict is produced exactly for a response that has a severity in     *)
(* {VERIFIED, WARNING, ANOMALY} (in any case), a confidence (0 included)   *)
(* and a reasoning; the verdict then carries the upper-case severity and a *)
(* confidence within [0,100]; any other response makes the stage fail.     *)
C11_ValidAiVerdicts ==
    (ra.pc = "done" /\ Has(ra.logs, "Received response from Gemini AI")) =>
        LET resp == ra.response
            acceptable ==
                /\ resp.kind = "json"
                /\ resp.verdict # << >>
                /\ toUpperCase(resp.verdict[1]) \in {"VERIFIED", "WARNING", "ANOMALY"}
                /\ resp.confidence # << >>
                /\ resp.reasoning # << >>
        IN  IF acceptable
            THEN /\ Has(ra.logs, "AI Verdict")
                 /\ ra.result.verdict = toUpperCase(resp.verdict[1])
                 /\ ra.result.confidence \in 0..100
            ELSE /\ ~Has(ra.logs, "AI Verdict")
                 /\ ra.result.verdict = "WARNING"
                 /\ ra.result.confidence = 0
                 /\ ra.result.reasoning.text =
                        "Audit failed due to system error. Manual review required."

(* C12. The adapters of the AI service never raise: whatever the external  *)
(* call does, runAudit ends with a verdict (also when getContextData threw *)
(* for a coordinate out of range), analyzeEnergyAnomaly gives              *)
(* processIotLog a result, and processIotLog's catch block is not entered. *)
C12_NeverRaises ==
    /\ ra.pc = "done" => ra.result.verdict # "none"
    /\ (ra.pc = "done" /\ ~ValidCoordinates(ra.latitude, ra.longitude)) =>
           (ra.result.verdict = "WARNING" /\ ra.result.confidence = 0)
    /\ \A r \in Runs :
          /\ run[r].pc \in {"createAudit", "storeLogs"} =>
                 /\ run[r].aiResult.status \in {"NORMAL", "WARNING", "ANOMALY", "PENDING"}
                 /\ run[r].aiResult.confidence \in 0..100
          /\ result[r].returned => result[r].error # "thrown"

C12_Witness ==
    /\ ra.pc = "done"
    /\ ra.longitude = 181
    /\ ra.result.verdict = "WARNING"
    /\ ra.result.confidence = 0
    /\ run[1].pc = "createAudit"
    /\ run[1].aiOutcome = "apierror"
    /\ run[1].aiResult.status = "PENDING"
    /\ run[1].aiResult.reasoning.text = "AI analysis unavailable. Manual review required."

\* the live weather lookup delivered a body the agent could read
WeatherLookupSucceeded ==
    /\ cd.weatherOutcome.kind = "ok"
    /\ cd.weatherOutcome.body.main # << >>
    /\ cd.weatherOutcome.body.weather # "absent"
\* the live grid lookup delivered a body
GridLookupSucceeded == cd.gridOutcome.kind = "ok"

(* C13. Fallback completeness: the context data getContextData returns has *)
(* every field populated (temperature, condition, humidity, grid carbon    *)
(* intensity, both source tags), whatever the providers did.               *)
C13_FallbackCompleteness ==
    cd.pc = "done" =>
        LET c == cd.result[1]
        IN  /\ c.weather.temp_c.kind # "undefined"
            /\ c.weather.condition \in {"Clear", "Partly Cloudy", "Cloudy", "Snow",
                                        "Rain", "Unknown"}
            /\ c.weather.humidity.kind # "undefined"
            /\ c.grid.grid_carbon_intensity.kind # "undefined"
            /\ c.source.weather \in {"api", "mock"}
            /\ c.source.grid \in {"api", "mock"}

(* C14. The context agent never fails: getContextData returns context data *)
(* for every latitude and longitude, it never throws.                      *)
C14_EnrichNeverFails ==
    cd.pc # "thrown"

(* C15. Per-field provenance: the weather source is "api" exactly when the *)
(* live weather lookup succeeded and the grid source is "api" exactly when *)
(* the live grid lookup succeeded, independently of each other.            *)
C15_Provenance ==
    cd.pc = "done" =>
        /\ cd.result[1].source.weather = (IF WeatherLookupSucceeded THEN "api" ELSE "mock")
        /\ cd.result[1].source.grid = (IF GridLookupSucceeded THEN "api" ELSE "mock")

C15_Witness ==
    /\ cd.pc = "done"
    /\ cd.weatherOutcome.kind = "failed"
    /\ cd.gridOutcome.kind = "ok"
    /\ cd.result[1].source = [weather |-> "mock", grid |-> "api"]

\* the runs that have been started
StartedRuns == {r \in Runs : run[r].pc # "absent"}

(* C16. Acknowledge before audit: once the endpoint has inserted the       *)
(* reading, exactly one run has been started, for the inserted reading;    *)
(* the response is the success acknowledgment (201, success, the reading's *)
(* id) and it stays so whatever the run does afterwards, and no run is     *)
(* started for a request that was not inserted.                            *)
C16_AckBeforeAudit ==
    /\ post.logId # 0 =>
          /\ StartedRuns = {post.logId}
          /\ iot_logs[post.logId].energy_kwh = post.body.energy_kwh
          /\ post.pc \in {"triggered", "responded"}
    /\ (post.pc = "responded" /\ post.logId # 0) =>
          /\ post.response.status = 201
          /\ post.response.success
          /\ post.response.logId = post.logId
    /\ post.logId = 0 => StartedRuns = {}

C16_Witness ==
    /\ post.pc = "responded"
    /\ post.response.status = 201
    /\ post.response.success
    /\ run[post.response.logId].pc = "done"
    /\ result[post.response.logId].returned
    /\ ~result[post.response.logId].success

\* the history lookup of run r succeeded (lines 86-104)
HistoryFound(r) == \E i \in DOMAIN own[r] : own[r][i][3] = "Historical average"

\* the shared log no longer holds the rule check of run r: another call
\* has reset this.logs since
RuleCheckOverwritten(r) ==
    /\ \E i \in DOMAIN own[r] : own[r][i][3] = "Preliminary assessment"
    /\ ~\E i \in DOMAIN logs : logs[i][1] = r /\ logs[i][3] = "Preliminary assessment"

RuleChecked(r) == run[r].preliminaryStatus # "none"

(* C18. Invariant violation in the rules: a reading whose supplier has a   *)
(* zero or negative ceiling is not classified normally; every audit        *)
(* persisted for it, and the result returned for it, is the system-error   *)
(* verdict WARNING with confidence 0.                                      *)
C18_InvalidCeiling ==
    \A r \in Runs :
        (RuleChecked(r) /\ run[r].billMaxLoad =< 0) =>
            /\ \A a \in AuditsOf(r) :
                  /\ audit_events[a].status = "WARNING"
                  /\ audit_events[a].confidence_score = 0
            /\ (result[r].returned /\ result[r].success) => result[r].status = "WARNING"

\* the run is over, its audit event was created and no store call rejected
PersistenceSucceeded(r) ==
    /\ run[r].pc = "done"
    /\ AuditsOf(r) # {}
    /\ result[r].error # "thrown"

\* energy was consumed and the reading is more than 10% above the ceiling
OverLimit(r) ==
    /\ run[r].energy_kwh > 0
    /\ run[r].energy_kwh * 10 > run[r].billMaxLoad * 11

(* C19. Over-limit readings are detected: when the reading is more than    *)
(* 10% above the ceiling and persistence succeeds, processIotLog returns   *)
(* success with the audit's id and a status of WARNING or ANOMALY.         *)
C19_OverLimitDetected ==
    \A r \in Runs :
        (PersistenceSucceeded(r) /\ OverLimit(r)) =>
            /\ result[r].success
            /\ result[r].auditId \in AuditsOf(r)
            /\ result[r].status \in {"WARNING", "ANOMALY"}
            /\ audit_events[result[r].auditId].status = result[r].status

\* the same for the suppliers whose ceiling is positive
OverLimitDetectedPositiveCeiling ==
    \A r \in Runs :
        (PersistenceSucceeded(r) /\ OverLimit(r) /\ run[r].billMaxLoad > 0) =>
            /\ result[r].success
            /\ result[r].auditId \in AuditsOf(r)
            /\ result[r].status \in {"WARNING", "ANOMALY"}
            /\ audit_events[result[r].auditId].status = result[r].status

\* the positions of the entries of run r that carry one of the messages
Positions(r, messages) == {i \in 1..Len(own[r]) : own[r][i][3] \in messages}

\* the stages of a run, in the order of the specification, by the entry
\* that each stage logs
StageEntries ==
    <<{"Weather"},
      {"Running rule-based pre-check"},
      {"Invoking Gemini AI for analysis"},
      {"Using AI assessment", "Using rule-based assessment"},
      {"Audit event created"},
      {"Notification: Audit requires human review", "Audit complete"}>>

(* C20. Stage order: in every run the stages happen in the order           *)
(* enrichment, rule check, AI classification, reconciliation, persistence, *)
(* notification; each stage happens at most once, a later stage only after *)
(* every earlier one, an audit event exists only after the reconciliation, *)
(* and nothing is logged after the final stage.                            *)
C20_StageOrder ==
    \A r \in Runs :
        /\ \A k \in 1..Len(StageEntries) :
              Cardinality(Positions(r, StageEntries[k])) =< 1
        /\ \A k \in 2..Len(StageEntries) :
              \A i \in Positions(r, StageEntries[k]) :
                  \E j \in Positions(r, StageEntries[k - 1]) : j < i
        /\ AuditsOf(r) # {} => Positions(r, StageEntries[4]) # {}
        /\ Cardinality(AuditsOf(r)) =< 1
        /\ \A i \in Positions(r, StageEntries[6]) : i = Len(own[r])

C20_Witness ==
    /\ run[1].pc = "done"
    /\ result[1].success
    /\ result[1].status = "ANOMALY"
    /\ \A k \in 1..Len(StageEntries) : Positions(1, StageEntries[k]) # {}
    /\ own[1][Len(own[1])][3] = "Notification: Audit requires human review"

(* C21. Three-valued output: every status the orchestrator persists or     *)
(* returns is VERIFIED, WARNING or ANOMALY, whatever the AI answers; the   *)
(* AI label NORMAL counts as VERIFIED, so it never replaces the rule       *)
(* status, and PENDING never becomes the final status.                     *)
C21_ThreeValuedOutput ==
    /\ \A a \in AuditIds : audit_events[a].status \in {"VERIFIED", "WARNING", "ANOMALY"}
    /\ \A r \in Runs :
          /\ (result[r].returned /\ result[r].success) =>
                 result[r].status \in {"VERIFIED", "WARNING", "ANOMALY"}
          /\ (Reconciled(r) /\ run[r].aiResult.status \in {"NORMAL", "PENDING"}) =>
                 run[r].finalStatus = run[r].preliminaryStatus

C21_Witness ==
    /\ run[1].aiResult.status = "PENDING"
    /\ run[1].preliminaryStatus = "VERIFIED"
    /\ run[1].usedAi
    /\ AuditsOf(1) # {}
    /\ \A a \in AuditsOf(1) : audit_events[a].status = "VERIFIED"

C23_RunTerminates ==
    <>(run[1].pc = "done")

\* the AI call of run r, for a supplier with a positive ceiling, failed or
\* was not configured
AiUnavailable(r) ==
    /\ run[r].billMaxLoad > 0
    /\ run[r].aiOutcome \in {"nokey", "apierror"}

(* C24. Path recorded in the trace: once the AI stage of a run is over,    *)
(* its trace holds an entry that tells which assessment was used, and when *)
(* the AI call failed or was unconfigured that entry says the rule-based   *)
(* assessment was used and no entry says the AI assessment was used.       *)
C24_PathInTrace ==
    \A r \in Runs :
        Reconciled(r) =>
            /\ Positions(r, {"Using AI assessment", "Using rule-based assessment"}) # {}
            /\ AiUnavailable(r) =>
                  /\ Positions(r, {"Using rule-based assessment"}) # {}
                  /\ Positions(r, {"Using AI assessment"}) = {}

(* C27. AI unavailable in the orchestrator: when the AI analysis failed or *)
(* was unconfigured, the persisted audit has the preliminary status, the   *)
(* default confidence 75 and a rule-based reasoning, not confidence 0 or   *)
(* the AI client's "unavailable" text.                                     *)
C27_AiUnavailableDefaults ==
    \A r \in Runs :
        AiUnavailable(r) =>
            \A a \in AuditsOf(r) :
                /\ audit_events[a].status = run[r].preliminaryStatus
                /\ audit_events[a].confidence_score = DefaultConfidence
                /\ audit_events[a].agent_reasoning.text #
                       "AI analysis unavailable. Manual review required."

(* C25. Contextual analyzer, rainy-day rule: when the weather is rainy and *)
(* energy is at least 90% of the ceiling, the flag HIGH_LOAD_RAINY_DAY is  *)
(* raised and the result is suspicious, unless the extreme-heat rule       *)
(* (temperature > 35 and energy at least 85% of the ceiling) explained the *)
(* load; then the rainy-day rule does not set suspicious, and the result   *)
(* is suspicious only if the critical-overage rule made it so.             *)
C25_RainyDayRule ==
    \A r \in Runs :
        (RuleChecked(r) /\ run[r].billMaxLoad > 0) =>
            LET energy == run[r].energy_kwh
                ceiling == run[r].billMaxLoad
                rainyHighLoad == /\ run[r].weather.condition = "Rainy"
                                 /\ energy * 10 >= ceiling * 9
                extremeHeat == /\ run[r].weather.temperature > 35
                               /\ energy * 100 >= ceiling * 85
                criticalOverage == energy * 10 > ceiling * 12
            IN  rainyHighLoad =>
                    /\ "HIGH_LOAD_RAINY_DAY" \in run[r].contextAnalysis.contextFlags
                    /\ run[r].contextAnalysis.isSuspicious =
                           (IF extremeHeat THEN criticalOverage ELSE TRUE)

\* the same rule as the code has it: the flag needs more than 90% of the
\* ceiling, and the result is then suspicious whatever the temperature
RainyDayRuleStrict ==
    \A r \in Runs :
        (RuleChecked(r) /\ run[r].billMaxLoad > 0) =>
            LET rainyHighLoad == /\ run[r].weather.condition = "Rainy"
                                 /\ run[r].energy_kwh * 10 > run[r].billMaxLoad * 9
            IN  /\ ("HIGH_LOAD_RAINY_DAY" \in run[r].contextAnalysis.contextFlags) = rainyHighLoad
                /\ rainyHighLoad => run[r].contextAnalysis.isSuspicious

(* C26. The contextual analyzer does not decide severity: two runs with    *)
(* the same rule verdict and the same AI verdict, whatever the contextual  *)
(* analysis said of each (suspicious, flags, reasoning), get the same      *)
(* final severity and confidence, in the run and in the persisted audit.   *)
C26_ContextDoesNotDecide ==
    \A r1, r2 \in Runs :
        (/\ Reconciled(r1) /\ Reconciled(r2)
         /\ run[r1].preliminaryStatus = run[r2].preliminaryStatus
         /\ run[r1].aiResult = run[r2].aiResult)
        => /\ run[r1].finalStatus = run[r2].finalStatus
           /\ run[r1].confidence = run[r2].confidence
           /\ \A a1 \in AuditsOf(r1), a2 \in AuditsOf(r2) :
                 /\ audit_events[a1].status = audit_events[a2].status
                 /\ audit_events[a1].confidence_score = audit_events[a2].confidence_score

C26_Witness ==
    /\ run[1].pc = "done" /\ run[2].pc = "done"
    /\ AuditsOf(1) # {} /\ AuditsOf(2) # {}
    /\ run[1].energy_kwh = 19 /\ run[2].energy_kwh = 19
    /\ run[1].aiResult = run[2].aiResult
    /\ run[1].aiResult.status = "NORMAL"
    /\ run[1].contextAnalysis.isSuspicious
    /\ "HIGH_LOAD_RAINY_DAY" \in run[1].contextAnalysis.contextFlags
    /\ ~run[2].contextAnalysis.isSuspicious
    /\ run[2].contextAnalysis.contextFlags = {}
    /\ run[1].finalStatus = "VERIFIED" /\ run[2].finalStatus = "VERIFIED"

(* C28. Synthetic values depend only on location and reading time: two     *)
(* enrichments of the same reading (the same location, the same reading    *)
(* timestamp) that both fall back to the synthetic grid intensity return   *)
(* the same grid intensity, whatever the wall-clock time of each.          *)
C28_SyntheticGridRepeatable ==
    (/\ cd.pc = "done"
     /\ cd.earlier # << >>
     /\ cd.earlier[1].source.grid = "mock"
     /\ cd.result[1].source.grid = "mock")
    => cd.result[1].grid = cd.earlier[1].grid

\* the store and the pipeline are as they were before the request
NoTrace ==
    /\ \A r \in Runs : iot_logs[r].energy_kwh = 0
    /\ StartedRuns = {}
    /\ audit_events = << >>
    /\ logs = << >>

(* C29. Rejected ingestion leaves no trace: a request with a required      *)
(* field missing, a numeric field negative or not a number, an invalid     *)
(* timestamp or an unknown supplier is answered 400, and a failed insert   *)
(* is answered 500; in both cases no reading is inserted and no pipeline   *)
(* run is started.                                                         *)
C29_RejectedLeavesNoTrace ==
    /\ post.body.kind \in {"missing", "negative", "badtime"} =>
          /\ NoTrace
          /\ post.pc = "responded" => /\ post.response.status = 400
                                      /\ ~post.response.success
                                      /\ post.response.logId = 0
    /\ post.supplier = "missing" =>
          /\ NoTrace
          /\ post.pc = "responded"
          /\ post.response.status = 400
          /\ ~post.response.success
          /\ post.response.logId = 0
    /\ post.inserted = "error" =>
          /\ NoTrace
          /\ post.pc = "responded"
          /\ post.response.status = 500
          /\ ~post.response.success
          /\ post.response.logId = 0

C29_Witness ==
    /\ post.pc = "responded"
    /\ post.body.kind = "valid"
    /\ post.supplier = "missing"
    /\ post.response.status = 400
    /\ NoTrace

\* the answers of fetchPendingAudits that a step has put on their way
NewAnswers(u) == inFlight'[u].polls \ inFlight[u].polls

(* C30. Pending list: whatever runs and reviewer actions came before,      *)
(* fetchPendingAudits returns exactly the audits whose status is PENDING,  *)
(* WARNING or ANOMALY and whose human_action is null at the moment the     *)
(* store runs the query: an audit whose human_action has been set is not   *)
(* returned by a later query, and a VERIFIED audit is never returned nor   *)
(* listed.                                                                 *)
C30_PendingList ==
    /\ [](\A u \in Reviewers :
             \A a \in pendingAudits[u] \cup UNION {answer.data : answer \in inFlight[u].polls} :
                 /\ a \in AuditIds
                 /\ audit_events[a].status \in {"PENDING", "WARNING", "ANOMALY"})
    /\ [][\A u \in Reviewers : \A answer \in NewAnswers(u) :
             ~answer.error =>
                 answer.data =
                     {a \in 1..Len(audit_events') :
                          /\ audit_events'[a].status \in {"PENDING", "WARNING", "ANOMALY"}
                          /\ audit_events'[a].human_action = NULL}]_vars

\* an audited anomaly is in a session's list, it has been flagged, and a
\* poll this session sent afterwards is answered without it
C30_Witness ==
    /\ Len(audit_events) = 1
    /\ audit_events[1].status = "ANOMALY"
    /\ audit_events[1].human_action = "FLAGGED"
    /\ pendingAudits[2] = {1}
    /\ inFlight[2].polls = {[error |-> FALSE, data |-> {}]}

=============================================================================
